---- MODULE Spec2Model ----
(***************************************************************************)
(* httpcheck (src/httpcheck.go): one run of main -- argument parse,        *)
(* environment resolution, one HTTP request, evaluation, os.Exit.          *)
(*                                                                         *)
(* Go strings are modelled as sequences of one-character strings, so that  *)
(* strings.Split, strings.TrimSpace, strconv.Atoi, strings.ToUpper and     *)
(* strings.Contains are computed character by character.                   *)
(***************************************************************************)
EXTENDS Integers, Sequences, FiniteSets, TLC

(* ------------------------------------------------------------------ *)
(* Bounds of the model                                                 *)
(* ------------------------------------------------------------------ *)

\* longest argument list drawn freely (any token at any position)
MaxArgs == 3

(* ------------------------------------------------------------------ *)
(* Program constants                                                   *)
(* ------------------------------------------------------------------ *)

\* var timeoutSeconds int = 5
DefaultTimeout == 5

\* var httpMethod string = "GET"
GET == <<"G", "E", "T">>

HEAD == <<"H", "E", "A", "D">>

(* ------------------------------------------------------------------ *)
(* Library functions of the Go standard library used by main           *)
(* ------------------------------------------------------------------ *)

DigitVal ==
    ("0" :> 0) @@ ("1" :> 1) @@ ("2" :> 2) @@ ("3" :> 3) @@ ("4" :> 4) @@
    ("5" :> 5) @@ ("6" :> 6) @@ ("7" :> 7) @@ ("8" :> 8) @@ ("9" :> 9)

IsDigit(c) == c \in DOMAIN DigitVal

\* unicode.IsSpace on the Latin-1 range, as strings.TrimSpace uses it
IsSpace(c) == c \in {" ", "\t", "\n", "\r", "\f"}

RECURSIVE DigitsValue(_, _)
\* the base-10 accumulation loop of strconv.Atoi over the first n
\* characters: n = n*10 + digit
DigitsValue(s, n) ==
    IF n = 0 THEN 0
    ELSE DigitsValue(s, n - 1) * 10 + DigitVal[s[n]]

\* strconv.Atoi: optional sign, then one or more decimal digits; anything
\* else is a syntax error.  (The 64-bit range error needs 19 digits and is
\* beyond the strings drawn here.)
Atoi(s) ==
    LET signed == s # <<>> /\ Head(s) \in {"+", "-"}
        digits == IF signed THEN Tail(s) ELSE s
    IN  IF digits = <<>> \/ \E k \in 1..Len(digits) : ~IsDigit(digits[k])
        THEN [ok |-> FALSE, val |-> 0]
        ELSE [ok  |-> TRUE,
              val |-> IF signed /\ Head(s) = "-"
                      THEN 0 - DigitsValue(digits, Len(digits))
                      ELSE DigitsValue(digits, Len(digits))]

\* strings.TrimSpace: the slice from the first to the last character that
\* is not white space
TrimSpace(s) ==
    LET kept == {k \in 1..Len(s) : ~IsSpace(s[k])}
    IN  IF kept = {} THEN <<>>
        ELSE SubSeq(s, CHOOSE k \in kept : \A j \in kept : k <= j,
                       CHOOSE k \in kept : \A j \in kept : k >= j)

\* the position of the n-th separator of s; 0 for n = 0 and Len(s) + 1
\* past the last one
SeparatorAt(s, sep, n) ==
    LET at == {k \in 1..Len(s) : s[k] = sep}
    IN  IF n = 0 THEN 0
        ELSE IF n > Cardinality(at) THEN Len(s) + 1
        ELSE CHOOSE k \in at : Cardinality({j \in at : j < k}) = n - 1

\* strings.Split(s, sep) for a one-character separator: Count(s, sep) + 1
\* pieces, each the slice between two neighbouring separators
Split(s, sep) ==
    [n \in 1..(Cardinality({k \in 1..Len(s) : s[k] = sep}) + 1) |->
        SubSeq(s, SeparatorAt(s, sep, n - 1) + 1, SeparatorAt(s, sep, n) - 1)]

LowerLetters ==
    <<"a", "b", "c", "d", "e", "f", "g", "h", "i", "j", "k", "l", "m",
      "n", "o", "p", "q", "r", "s", "t", "u", "v", "w", "x", "y", "z">>

UpperLetters ==
    <<"A", "B", "C", "D", "E", "F", "G", "H", "I", "J", "K", "L", "M",
      "N", "O", "P", "Q", "R", "S", "T", "U", "V", "W", "X", "Y", "Z">>

ToUpperChar(c) ==
    IF \E k \in 1..Len(LowerLetters) : LowerLetters[k] = c
    THEN UpperLetters[CHOOSE k \in 1..Len(LowerLetters) : LowerLetters[k] = c]
    ELSE c

\* strings.ToUpper
ToUpper(s) == [k \in 1..Len(s) |-> ToUpperChar(s[k])]

\* strings.Contains(s, substr)
Contains(s, substr) ==
    \E k \in 0..(Len(s) - Len(substr)) :
        SubSeq(s, k + 1, k + Len(substr)) = substr

(* ------------------------------------------------------------------ *)
(* The option names of the switch in main                              *)
(* ------------------------------------------------------------------ *)

\* case "-u", "--url"
ShortUrl == <<"-", "u">>

LongUrl ==
    <<"-", "-", "u", "r", "l">>

CaseUrl == {ShortUrl, LongUrl}

\* case "-U", "--url-env-name"
ShortUrlEnvName == <<"-", "U">>

LongUrlEnvName ==
    <<"-", "-", "u", "r", "l", "-", "e", "n", "v", "-", "n", "a", "m", "e">>

CaseUrlEnvName == {ShortUrlEnvName, LongUrlEnvName}

\* case "-c", "--accepted-codes"
ShortAcceptedCodes == <<"-", "c">>

LongAcceptedCodes ==
    <<"-", "-", "a", "c", "c", "e", "p", "t", "e", "d", "-", "c", "o", "d", "e", "s">>

CaseAcceptedCodes == {ShortAcceptedCodes, LongAcceptedCodes}

\* case "-C", "--accepted-codes-env-name"
ShortAcceptedCodesEnvName == <<"-", "C">>

LongAcceptedCodesEnvName ==
    <<"-", "-", "a", "c", "c", "e", "p", "t", "e", "d", "-", "c", "o", "d", "e", "s", "-", "e", "n", "v", "-", "n", "a", "m", "e">>

CaseAcceptedCodesEnvName == {ShortAcceptedCodesEnvName, LongAcceptedCodesEnvName}

\* case "-v", "--verbose"
ShortVerbose == <<"-", "v">>

LongVerbose ==
    <<"-", "-", "v", "e", "r", "b", "o", "s", "e">>

CaseVerbose == {ShortVerbose, LongVerbose}

\* case "-k", "--insecure"
ShortInsecure == <<"-", "k">>

LongInsecure ==
    <<"-", "-", "i", "n", "s", "e", "c", "u", "r", "e">>

CaseInsecure == {ShortInsecure, LongInsecure}

\* case "-h", "--help"
ShortHelp == <<"-", "h">>

LongHelp ==
    <<"-", "-", "h", "e", "l", "p">>

CaseHelp == {ShortHelp, LongHelp}

\* case "-t", "--timeout"
ShortTimeout == <<"-", "t">>

LongTimeout ==
    <<"-", "-", "t", "i", "m", "e", "o", "u", "t">>

CaseTimeout == {ShortTimeout, LongTimeout}

\* case "-m", "--method"
ShortMethod == <<"-", "m">>

LongMethod ==
    <<"-", "-", "m", "e", "t", "h", "o", "d">>

CaseMethod == {ShortMethod, LongMethod}

\* case "-b", "--body-contains"
ShortBodyContains == <<"-", "b">>

LongBodyContains ==
    <<"-", "-", "b", "o", "d", "y", "-", "c", "o", "n", "t", "a", "i", "n", "s">>

CaseBodyContains == {ShortBodyContains, LongBodyContains}

\* case "-B", "--body-contains-env-name"
ShortBodyContainsEnvName == <<"-", "B">>

LongBodyContainsEnvName ==
    <<"-", "-", "b", "o", "d", "y", "-", "c", "o", "n", "t", "a", "i", "n", "s", "-", "e", "n", "v", "-", "n", "a", "m", "e">>

CaseBodyContainsEnvName == {ShortBodyContainsEnvName, LongBodyContainsEnvName}

\* every option name the switch knows; anything else takes the default case
KnownOptions ==
    CaseUrl \cup CaseUrlEnvName \cup CaseAcceptedCodes \cup CaseAcceptedCodesEnvName
    \cup CaseVerbose \cup CaseInsecure \cup CaseHelp \cup CaseTimeout \cup CaseMethod
    \cup CaseBodyContains \cup CaseBodyContainsEnvName

(* ------------------------------------------------------------------ *)
(* Inputs of a run: the argument list, the environment, the server     *)
(* ------------------------------------------------------------------ *)

\* an option name the switch does not know (the default case)
UnknownOption == <<"-", "z">>

TargetURL == <<"h", "t", "t", "p">>

UrlVar == <<"U", "V">>

CodeVar == <<"C", "V">>

BodyVar == <<"B", "V">>

Empty == <<>>

Codes200 == <<"2", "0", "0">>

Codes404 == <<"4", "0", "4">>

Codes200and404 == <<"2", "0", "0", ",", "4", "0", "4">>

Codes404and200 == <<"4", "0", "4", ",", "2", "0", "0">>

\* a duplicate, with blanks around the pieces
CodesDuplicated == <<" ", "4", "0", "4", ",", "4", "0", "4", " ">>

\* not a number: strconv.Atoi fails on it
CodesInvalid == <<"4", "0", "x">>

CodeLists ==
    {Codes200, Codes200and404, Codes404and200, CodesDuplicated, CodesInvalid}

Needle == <<"O", "K">>

\* a body that holds the needle, and one that holds its letters only
BodyWithNeedle == <<"O", "K", "!">>

BodyWithoutNeedle == <<"K", "O">>

StatusCodes == {200, 404, 500}

TimeoutValues ==
    {<<"1", "0">>, <<"0">>, <<"-", "1">>}

NotANumber == <<"a", "b", "c">>

MethodHead == <<"h", "e", "a", "d">>

MethodPost == <<"P", "O", "S", "T">>

\* the tokens of the freely drawn argument lists
FreeTokens ==
    {ShortHelp, LongHelp, UnknownOption, ShortVerbose, ShortTimeout, NotANumber,
     ShortUrl, TargetURL, ShortMethod, MethodPost}

\* every list of at most MaxArgs tokens
FreeArgs == UNION {[1..n -> FreeTokens] : n \in 0..MaxArgs}

\* complete command lines over the criteria options, as the usage line
\* lists them
CriteriaArgs ==
    {u \o c \o cc \o b \o bb \o m \o v :
        u  \in {<<ShortUrl, TargetURL>>},
        c  \in {<<>>} \cup {<<ShortAcceptedCodes, l>> : l \in CodeLists},
        cc \in {<<>>, <<ShortAcceptedCodesEnvName, CodeVar>>},
        b  \in {<<>>, <<ShortBodyContains, Needle>>, <<ShortBodyContains, Empty>>},
        bb \in {<<>>, <<ShortBodyContainsEnvName, BodyVar>>},
        m  \in {<<>>, <<ShortMethod, MethodHead>>},
        v  \in {<<>>, <<ShortVerbose>>}}

\* complete command lines over the transport options
TransportArgs ==
    {v \o u \o t \o k \o c :
        v \in {<<>>, <<ShortVerbose>>, <<LongVerbose>>},
        u \in {<<ShortUrl, TargetURL>>, <<LongUrl, TargetURL>>,
               <<ShortUrlEnvName, UrlVar>>, <<LongUrlEnvName, UrlVar>>},
        t \in {<<>>} \cup {<<ShortTimeout, x>> : x \in TimeoutValues}
                     \cup {<<LongTimeout, <<"7">> >>},
        k \in {<<>>, <<ShortInsecure>>, <<LongInsecure>>},
        c \in {<<>>, <<ShortAcceptedCodes, Codes200>>}}

\* every option name alone (its value is missing), and the long names
\* with a value
LongNameArgs ==
    {<<f>> : f \in KnownOptions} \cup
    {<<LongUrl, TargetURL, LongAcceptedCodes, Codes200, LongBodyContains, Needle>>,
     <<LongUrlEnvName, UrlVar, LongAcceptedCodesEnvName, CodeVar>>,
     <<LongUrlEnvName, UrlVar, LongBodyContainsEnvName, BodyVar, LongMethod, GET>>,
     <<ShortUrl, TargetURL, LongHelp>>,
     <<ShortUrl, ShortHelp>>}

ArgLists == FreeArgs \cup CriteriaArgs \cup TransportArgs \cup LongNameArgs

\* the process environment: each variable is set to a value or is unset
\* (os.Getenv returns "" for both an unset and an empty variable)
Environments ==
    {(UrlVar :> u) @@ (CodeVar :> c) @@ (BodyVar :> b) :
        u \in {TargetURL, Empty}, c \in {Codes404, Empty}, b \in {Needle, Empty}}

\* what the server does with the one request: a transport error, or a
\* response whose body can be read, or a response whose body read fails
ServerBehaviours ==
    {[chosen |-> TRUE, err |-> TRUE, status |-> 0, body |-> Empty, readErr |-> FALSE]}
    \cup
    {[chosen |-> TRUE, err |-> FALSE, status |-> st, body |-> bd, readErr |-> FALSE] :
        st \in StatusCodes, bd \in {BodyWithNeedle, BodyWithoutNeedle}}
    \cup
    {[chosen |-> TRUE, err |-> FALSE, status |-> 200, body |-> BodyWithNeedle,
      readErr |-> TRUE]}

NoServer ==
    [chosen |-> FALSE, err |-> FALSE, status |-> 0, body |-> Empty, readErr |-> FALSE]

(* ------------------------------------------------------------------ *)
(* State                                                               *)
(* ------------------------------------------------------------------ *)

VARIABLES
    args,                  \* os.Args[1:]
    env,                   \* the process environment
    server,                \* the server's behaviour, fixed by the first request
    i,                     \* the loop index of the parse loop
    url,
    urlEnvName,
    acceptedCodesStr,
    acceptedCodesEnvName,
    verbose,
    insecureSkipVerify,
    help,
    timeoutSeconds,
    httpMethod,
    bodyContains,
    bodyContainsEnvName,
    acceptedCodeMap,       \* map[int]bool; nil until made
    client,                \* the http.Client, once built
    resp,                  \* the *http.Response
    bodyCheckPassed,
    deferred,              \* the deferred calls of main, not yet run
    bodyDrained,           \* resp.Body was read to its end
    bodyClosed,            \* resp.Body.Close() has run
    requests,              \* HTTP requests issued by this run
    stdout,
    stderr,
    pc,                    \* the position of main
    exitCode,              \* the argument of os.Exit
    given,                 \* the options the parse loop has matched
    verboseAt,             \* positions of args matched by case "-v", "--verbose"
    run,                   \* 1: the run; 2: the same run without its verbose options
    first                  \* exit code and request count of run 1

locals ==
    <<url, urlEnvName, acceptedCodesStr, acceptedCodesEnvName, verbose,
      insecureSkipVerify, help, timeoutSeconds, httpMethod, bodyContains,
      bodyContainsEnvName>>

vars ==
    <<args, env, server, i, url, urlEnvName, acceptedCodesStr,
      acceptedCodesEnvName, verbose, insecureSkipVerify, help, timeoutSeconds,
      httpMethod, bodyContains, bodyContainsEnvName, acceptedCodeMap, client,
      resp, bodyCheckPassed, deferred, bodyDrained, bodyClosed, requests,
      stdout, stderr, pc, exitCode, given, verboseAt, run, first>>

NilMap == [nil |-> TRUE, entries |-> <<>>]

NoClient == [built |-> FALSE, Timeout |-> 0, InsecureSkipVerify |-> FALSE]

NoResponse == [received |-> FALSE, StatusCode |-> 0, Body |-> Empty]

NoExit == 0 - 1

\* the declarations at the top of main, and args := os.Args[1:]
MainEntry ==
    /\ i = 0
    /\ url = Empty
    /\ urlEnvName = Empty
    /\ acceptedCodesStr = Empty
    /\ acceptedCodesEnvName = Empty
    /\ verbose = FALSE
    /\ insecureSkipVerify = FALSE
    /\ help = FALSE
    /\ timeoutSeconds = DefaultTimeout
    /\ httpMethod = GET
    /\ bodyContains = Empty
    /\ bodyContainsEnvName = Empty
    /\ acceptedCodeMap = NilMap
    /\ client = NoClient
    /\ resp = NoResponse
    /\ bodyCheckPassed = TRUE
    /\ deferred = <<>>
    /\ bodyDrained = FALSE
    /\ bodyClosed = FALSE
    /\ requests = 0
    /\ stdout = <<>>
    /\ stderr = <<>>
    /\ pc = "start"
    /\ exitCode = NoExit
    /\ given = {}
    /\ verboseAt = {}

Init ==
    /\ args \in ArgLists
    /\ env \in Environments
    /\ server = NoServer
    /\ run = 1
    /\ first = [exitCode |-> NoExit, requests |-> 0]
    /\ MainEntry

(* ------------------------------------------------------------------ *)
(* Helpers of the actions                                              *)
(* ------------------------------------------------------------------ *)

\* os.Getenv
Getenv(name) == IF name \in DOMAIN env THEN env[name] ELSE Empty

UsageText ==
    "httpcheck: Ferramenta de linha de comando para verificar o estado HTTP de um URL."

\* printHelp printing nothing
printHelpSilent(out) == out

\* printHelp: every line goes through fmt.Println, to standard output
printHelp(out) == Append(out, UsageText)

\* fmt.Println / fmt.Printf behind "if verbose"
Narrate(out, cond, msg) == IF verbose /\ cond THEN Append(out, msg) ELSE out

\* os.Exit(code): the process ends at once; deferred calls are not run
osExit(code) ==
    /\ pc' = "exited"
    /\ exitCode' = code
    /\ UNCHANGED <<deferred, bodyClosed>>

\* args[i] and args[i+1] of the Go code (0-based) are args[i+1] and args[i+2]
AtOption(names) ==
    /\ pc = "parse"
    /\ i < Len(args)
    /\ args[i + 1] \in names

HasValue == i + 1 < Len(args)

(* ------------------------------------------------------------------ *)
(* main: the zero-argument check and the parse loop                    *)
(* ------------------------------------------------------------------ *)

\* if len(args) == 0 { printHelp(); os.Exit(0) }
CheckArguments ==
    /\ pc = "start"
    /\ \/ /\ Len(args) = 0
          /\ stdout' = printHelp(stdout)
          /\ osExit(0)
       \/ /\ Len(args) # 0
          /\ pc' = "parse"
          /\ UNCHANGED <<stdout, exitCode, deferred, bodyClosed>>
    /\ UNCHANGED <<args, env, server, i, locals, acceptedCodeMap, client, resp,
                   bodyCheckPassed, bodyDrained, requests, stderr, given,
                   verboseAt, run, first>>

\* case -u/--url: the next argument is the value, or the option is an error
ParseUrl ==
    /\ AtOption(CaseUrl)
    /\ given' = given \cup {ShortUrl}
    /\ \/ /\ HasValue
          /\ url' = args[i + 2]
          /\ i' = i + 2
          /\ UNCHANGED <<stdout, pc, exitCode, deferred, bodyClosed>>
       \/ /\ ~HasValue
          /\ stdout' = Append(stdout, "Erro: -u/--url precisa de um argumento.")
          /\ osExit(1)
          /\ UNCHANGED <<url, i>>
    /\ UNCHANGED <<urlEnvName, acceptedCodesStr, acceptedCodesEnvName, verbose, insecureSkipVerify, help, timeoutSeconds, httpMethod, bodyContains, bodyContainsEnvName>>
    /\ UNCHANGED <<args, env, server, acceptedCodeMap, client, resp,
                   bodyCheckPassed, bodyDrained, requests, stderr, verboseAt,
                   run, first>>

\* case -U/--url-env-name: the next argument is the value, or the option is an error
ParseUrlEnvName ==
    /\ AtOption(CaseUrlEnvName)
    /\ given' = given \cup {ShortUrlEnvName}
    /\ \/ /\ HasValue
          /\ urlEnvName' = args[i + 2]
          /\ i' = i + 2
          /\ UNCHANGED <<stdout, pc, exitCode, deferred, bodyClosed>>
       \/ /\ ~HasValue
          /\ stdout' = Append(stdout, "Erro: -U/--url-env-name precisa de um argumento.")
          /\ osExit(1)
          /\ UNCHANGED <<urlEnvName, i>>
    /\ UNCHANGED <<url, acceptedCodesStr, acceptedCodesEnvName, verbose, insecureSkipVerify, help, timeoutSeconds, httpMethod, bodyContains, bodyContainsEnvName>>
    /\ UNCHANGED <<args, env, server, acceptedCodeMap, client, resp,
                   bodyCheckPassed, bodyDrained, requests, stderr, verboseAt,
                   run, first>>

\* case -c/--accepted-codes: the next argument is the value, or the option is an error
ParseAcceptedCodes ==
    /\ AtOption(CaseAcceptedCodes)
    /\ given' = given \cup {ShortAcceptedCodes}
    /\ \/ /\ HasValue
          /\ acceptedCodesStr' = args[i + 2]
          /\ i' = i + 2
          /\ UNCHANGED <<stdout, pc, exitCode, deferred, bodyClosed>>
       \/ /\ ~HasValue
          /\ stdout' = Append(stdout, "Erro: -c/--accepted-codes precisa de um argumento.")
          /\ osExit(1)
          /\ UNCHANGED <<acceptedCodesStr, i>>
    /\ UNCHANGED <<url, urlEnvName, acceptedCodesEnvName, verbose, insecureSkipVerify, help, timeoutSeconds, httpMethod, bodyContains, bodyContainsEnvName>>
    /\ UNCHANGED <<args, env, server, acceptedCodeMap, client, resp,
                   bodyCheckPassed, bodyDrained, requests, stderr, verboseAt,
                   run, first>>

\* case -C/--accepted-codes-env-name: the next argument is the value, or the option is an error
ParseAcceptedCodesEnvName ==
    /\ AtOption(CaseAcceptedCodesEnvName)
    /\ given' = given \cup {ShortAcceptedCodesEnvName}
    /\ \/ /\ HasValue
          /\ acceptedCodesEnvName' = args[i + 2]
          /\ i' = i + 2
          /\ UNCHANGED <<stdout, pc, exitCode, deferred, bodyClosed>>
       \/ /\ ~HasValue
          /\ stdout' = Append(stdout, "Erro: -C/--accepted-codes-env-name precisa de um argumento.")
          /\ osExit(1)
          /\ UNCHANGED <<acceptedCodesEnvName, i>>
    /\ UNCHANGED <<url, urlEnvName, acceptedCodesStr, verbose, insecureSkipVerify, help, timeoutSeconds, httpMethod, bodyContains, bodyContainsEnvName>>
    /\ UNCHANGED <<args, env, server, acceptedCodeMap, client, resp,
                   bodyCheckPassed, bodyDrained, requests, stderr, verboseAt,
                   run, first>>

\* case -b/--body-contains: the next argument is the value, or the option is an error
ParseBodyContains ==
    /\ AtOption(CaseBodyContains)
    /\ given' = given \cup {ShortBodyContains}
    /\ \/ /\ HasValue
          /\ bodyContains' = args[i + 2]
          /\ i' = i + 2
          /\ UNCHANGED <<stdout, pc, exitCode, deferred, bodyClosed>>
       \/ /\ ~HasValue
          /\ stdout' = Append(stdout, "Erro: -b/--body-contains precisa de um argumento.")
          /\ osExit(1)
          /\ UNCHANGED <<bodyContains, i>>
    /\ UNCHANGED <<url, urlEnvName, acceptedCodesStr, acceptedCodesEnvName, verbose, insecureSkipVerify, help, timeoutSeconds, httpMethod, bodyContainsEnvName>>
    /\ UNCHANGED <<args, env, server, acceptedCodeMap, client, resp,
                   bodyCheckPassed, bodyDrained, requests, stderr, verboseAt,
                   run, first>>

\* case -B/--body-contains-env-name: the next argument is the value, or the option is an error
ParseBodyContainsEnvName ==
    /\ AtOption(CaseBodyContainsEnvName)
    /\ given' = given \cup {ShortBodyContainsEnvName}
    /\ \/ /\ HasValue
          /\ bodyContainsEnvName' = args[i + 2]
          /\ i' = i + 2
          /\ UNCHANGED <<stdout, pc, exitCode, deferred, bodyClosed>>
       \/ /\ ~HasValue
          /\ stdout' = Append(stdout, "Erro: -B/--body-contains-env-name precisa de um argumento.")
          /\ osExit(1)
          /\ UNCHANGED <<bodyContainsEnvName, i>>
    /\ UNCHANGED <<url, urlEnvName, acceptedCodesStr, acceptedCodesEnvName, verbose, insecureSkipVerify, help, timeoutSeconds, httpMethod, bodyContains>>
    /\ UNCHANGED <<args, env, server, acceptedCodeMap, client, resp,
                   bodyCheckPassed, bodyDrained, requests, stderr, verboseAt,
                   run, first>>

\* case "-v", "--verbose"
ParseVerbose ==
    /\ AtOption(CaseVerbose)
    /\ given' = given \cup {ShortVerbose}
    /\ verboseAt' = verboseAt \cup {i + 1}
    /\ verbose' = TRUE
    /\ i' = i + 1
    /\ UNCHANGED <<url, urlEnvName, acceptedCodesStr, acceptedCodesEnvName, insecureSkipVerify, help, timeoutSeconds, httpMethod, bodyContains, bodyContainsEnvName>>
    /\ UNCHANGED <<args, env, server, acceptedCodeMap, client, resp,
                   bodyCheckPassed, deferred, bodyDrained, bodyClosed, requests,
                   stdout, stderr, pc, exitCode, run, first>>

\* case "-k", "--insecure"
ParseInsecure ==
    /\ AtOption(CaseInsecure)
    /\ given' = given \cup {ShortInsecure}
    /\ insecureSkipVerify' = TRUE
    /\ i' = i + 1
    /\ UNCHANGED <<url, urlEnvName, acceptedCodesStr, acceptedCodesEnvName, verbose, help, timeoutSeconds, httpMethod, bodyContains, bodyContainsEnvName>>
    /\ UNCHANGED <<args, env, server, acceptedCodeMap, client, resp,
                   bodyCheckPassed, deferred, bodyDrained, bodyClosed, requests,
                   stdout, stderr, pc, exitCode, verboseAt, run, first>>

\* case "-h", "--help": only records the request; the loop goes on
ParseHelp ==
    /\ AtOption(CaseHelp)
    /\ given' = given \cup {ShortHelp}
    /\ help' = TRUE
    /\ i' = i + 1
    /\ UNCHANGED <<url, urlEnvName, acceptedCodesStr, acceptedCodesEnvName, verbose, insecureSkipVerify, timeoutSeconds, httpMethod, bodyContains, bodyContainsEnvName>>
    /\ UNCHANGED <<args, env, server, acceptedCodeMap, client, resp,
                   bodyCheckPassed, deferred, bodyDrained, bodyClosed, requests,
                   stdout, stderr, pc, exitCode, verboseAt, run, first>>

\* case "-t", "--timeout": strconv.Atoi decides; the value is not range-checked
ParseTimeout ==
    /\ AtOption(CaseTimeout)
    /\ given' = given \cup {ShortTimeout}
    /\ \/ /\ HasValue
          /\ Atoi(args[i + 2]).ok
          /\ timeoutSeconds' = Atoi(args[i + 2]).val
          /\ i' = i + 2
          /\ UNCHANGED <<stdout, stderr, pc, exitCode, deferred, bodyClosed>>
       \/ /\ HasValue
          /\ ~Atoi(args[i + 2]).ok
          /\ stderr' = Append(stderr, "Erro: -t/--timeout precisa de um inteiro valido")
          /\ osExit(1)
          /\ UNCHANGED <<timeoutSeconds, i, stdout>>
       \/ /\ ~HasValue
          /\ stdout' = Append(stdout, "Erro: -t/--timeout precisa de um argumento.")
          /\ osExit(1)
          /\ UNCHANGED <<timeoutSeconds, i, stderr>>
    /\ UNCHANGED <<url, urlEnvName, acceptedCodesStr, acceptedCodesEnvName, verbose, insecureSkipVerify, help, httpMethod, bodyContains, bodyContainsEnvName>>
    /\ UNCHANGED <<args, env, server, acceptedCodeMap, client, resp,
                   bodyCheckPassed, bodyDrained, requests, verboseAt, run, first>>

\* method == "GET" || method == "HEAD", after strings.ToUpper
ValidMethod(method) == method = GET \/ method = HEAD

\* case "-m", "--method"
ParseMethod ==
    /\ AtOption(CaseMethod)
    /\ given' = given \cup {ShortMethod}
    /\ \/ /\ HasValue
          /\ ValidMethod(ToUpper(args[i + 2]))
          /\ httpMethod' = ToUpper(args[i + 2])
          /\ i' = i + 2
          /\ UNCHANGED <<stdout, stderr, pc, exitCode, deferred, bodyClosed>>
       \/ /\ HasValue
          /\ ~ValidMethod(ToUpper(args[i + 2]))
          /\ stderr' = Append(stderr, "Erro: Metodo HTTP invalido. Use GET ou HEAD.")
          /\ osExit(1)
          /\ UNCHANGED <<httpMethod, i, stdout>>
       \/ /\ ~HasValue
          /\ stdout' = Append(stdout, "Erro: -m/--method precisa de um argumento.")
          /\ osExit(1)
          /\ UNCHANGED <<httpMethod, i, stderr>>
    /\ UNCHANGED <<url, urlEnvName, acceptedCodesStr, acceptedCodesEnvName, verbose, insecureSkipVerify, help, timeoutSeconds, bodyContains, bodyContainsEnvName>>
    /\ UNCHANGED <<args, env, server, acceptedCodeMap, client, resp,
                   bodyCheckPassed, bodyDrained, requests, verboseAt, run, first>>

UnknownOptionText == "Opcao desconhecida"

\* default: the diagnostic goes to os.Stderr, then printHelp(), os.Exit(1)
ParseUnknown ==
    /\ pc = "parse"
    /\ i < Len(args)
    /\ args[i + 1] \notin KnownOptions
    /\ stderr' = Append(stderr, UnknownOptionText)
    /\ stdout' = printHelp(stdout)
    /\ osExit(1)
    /\ UNCHANGED <<args, env, server, i, locals, acceptedCodeMap, client, resp,
                   bodyCheckPassed, bodyDrained, requests, given, verboseAt,
                   run, first>>

\* HelpRequested honoured only once a URL was given
HelpRequestedWithUrl == help /\ url # Empty

\* if help
HelpRequested == help

\* the loop has ended: if help { printHelp(); os.Exit(0) }
CheckHelp ==
    /\ pc = "parse"
    /\ ~(i < Len(args))
    /\ \/ /\ HelpRequested
          /\ stdout' = printHelp(stdout)
          /\ osExit(0)
       \/ /\ ~HelpRequested
          /\ pc' = "resolve"
          /\ UNCHANGED <<stdout, exitCode, deferred, bodyClosed>>
    /\ UNCHANGED <<args, env, server, i, locals, acceptedCodeMap, client, resp,
                   bodyCheckPassed, bodyDrained, requests, stderr, given,
                   verboseAt, run, first>>

(* ------------------------------------------------------------------ *)
(* main: resolution of the environment indirections                    *)
(* ------------------------------------------------------------------ *)

\* UseCodesEnv with the body-substring conditions left out
UseCodesEnvAlways == acceptedCodesEnvName # Empty

\* acceptedCodesEnvName != "" && bodyContainsEnvName == "" && bodyContains == ""
UseCodesEnv ==
    /\ acceptedCodesEnvName # Empty
    /\ bodyContainsEnvName = Empty
    /\ bodyContains = Empty

ResolvedUrl == IF urlEnvName # Empty THEN Getenv(urlEnvName) ELSE url

ResolvedCodes ==
    IF UseCodesEnv THEN Getenv(acceptedCodesEnvName) ELSE acceptedCodesStr

ResolvedBody ==
    IF bodyContainsEnvName # Empty THEN Getenv(bodyContainsEnvName) ELSE bodyContains

\* the three "if ...EnvName" blocks, then the check that url is not empty
Resolve ==
    /\ pc = "resolve"
    /\ url' = ResolvedUrl
    /\ acceptedCodesStr' = ResolvedCodes
    /\ bodyContains' = ResolvedBody
    /\ LET narrated ==
            Narrate(Narrate(Narrate(stdout,
                urlEnvName # Empty, "Usando URL da variavel de ambiente"),
                UseCodesEnv, "Usando codigos aceites da variavel de ambiente"),
                bodyContainsEnvName # Empty,
                "Usando string de busca do corpo da variavel de ambiente")
       IN  \/ /\ ResolvedUrl = Empty
              /\ stdout' = printHelp(Append(narrated,
                     "Erro: O URL deve ser fornecido via argumentos ou variavel de ambiente."))
              /\ osExit(1)
           \/ /\ ResolvedUrl # Empty
              /\ stdout' = narrated
              /\ pc' = "codes"
              /\ UNCHANGED <<exitCode, deferred, bodyClosed>>
    /\ UNCHANGED <<urlEnvName, acceptedCodesEnvName, verbose, insecureSkipVerify,
                   help, timeoutSeconds, httpMethod, bodyContainsEnvName>>
    /\ UNCHANGED <<args, env, server, i, acceptedCodeMap, client, resp,
                   bodyCheckPassed, bodyDrained, requests, stderr, given,
                   verboseAt, run, first>>

(* ------------------------------------------------------------------ *)
(* main: the accepted-codes map                                        *)
(* ------------------------------------------------------------------ *)

\* acceptedCodeMap[code] = true
MapPut(m, code) ==
    [nil |-> FALSE,
     entries |-> [k \in (DOMAIN m.entries) \cup {code} |->
                     IF k = code THEN TRUE ELSE m.entries[k]]]

\* acceptedCodeMap[code]: a missing key, and any key of a nil map, reads false
MapGet(m, code) ==
    IF code \in DOMAIN m.entries THEN m.entries[code] ELSE FALSE

RECURSIVE FillMapRemade(_, _, _)
\* FillMap with the map made anew for every piece
FillMapRemade(pieces, n, m) ==
    IF n > Len(pieces) THEN [ok |-> TRUE, map |-> m]
    ELSE IF ~Atoi(TrimSpace(pieces[n])).ok THEN [ok |-> FALSE, map |-> m]
    ELSE FillMapRemade(pieces, n + 1,
                       MapPut([nil |-> FALSE, entries |-> <<>>],
                              Atoi(TrimSpace(pieces[n])).val))

RECURSIVE FillMap(_, _, _)
\* for _, codeStr := range acceptedCodes, from the n-th piece on: the first
\* piece that strconv.Atoi rejects ends the loop (and the process)
FillMap(pieces, n, m) ==
    IF n > Len(pieces) THEN [ok |-> TRUE, map |-> m]
    ELSE IF ~Atoi(TrimSpace(pieces[n])).ok THEN [ok |-> FALSE, map |-> m]
    ELSE FillMap(pieces, n + 1, MapPut(m, Atoi(TrimSpace(pieces[n])).val))

\* if acceptedCodesStr != "" { acceptedCodes := strings.Split(...); make
\* the map; convert every piece, leaving at the first that fails }
BuildAcceptedCodes ==
    /\ pc = "codes"
    /\ \/ /\ acceptedCodesStr = Empty
          /\ pc' = "dispatch"
          /\ UNCHANGED <<acceptedCodeMap, stderr, exitCode, deferred, bodyClosed>>
       \/ /\ acceptedCodesStr # Empty
          /\ \E acceptedCodes \in {Split(acceptedCodesStr, ",")} :
             \E filled \in {FillMap(acceptedCodes, 1,
                                    [nil |-> FALSE, entries |-> <<>>])} :
                /\ acceptedCodeMap' = filled.map
                /\ \/ /\ filled.ok
                      /\ pc' = "dispatch"
                      /\ UNCHANGED <<stderr, exitCode, deferred, bodyClosed>>
                   \/ /\ ~filled.ok
                      /\ stderr' = Append(stderr, "Erro ao converter codigo aceite")
                      /\ osExit(1)
    /\ UNCHANGED <<args, env, server, i, locals, client, resp, bodyCheckPassed,
                   bodyDrained, requests, stdout, given, verboseAt, run, first>>

(* ------------------------------------------------------------------ *)
(* main: the request                                                   *)
(* ------------------------------------------------------------------ *)

\* the body of the response: a response to HEAD carries none
ResponseBody(s) == IF httpMethod = HEAD THEN Empty ELSE s.body

\* the client is built with the timeout as parsed, then client.Get(url) or
\* client.Head(url); an error ends the process, a response registers
\* defer resp.Body.Close()
Dispatch ==
    /\ pc = "dispatch"
    /\ client' = [built |-> TRUE, Timeout |-> timeoutSeconds,
                  InsecureSkipVerify |-> insecureSkipVerify]
    /\ stdout' = Narrate(stdout, insecureSkipVerify,
                         "Aviso: Conexoes TLS inseguras estao habilitadas.")
    /\ requests' = requests + 1
    /\ \E s \in ServerBehaviours :
          /\ server.chosen => s = server
          /\ server' = s
          /\ \/ /\ s.err
                /\ stderr' = Narrate(stderr, TRUE, "Erro ao fazer o pedido")
                /\ osExit(1)
                /\ UNCHANGED resp
             \/ /\ ~s.err
                /\ resp' = [received |-> TRUE, StatusCode |-> s.status,
                            Body |-> ResponseBody(s)]
                /\ deferred' = Append(deferred, "resp.Body.Close")
                /\ pc' = "body"
                /\ UNCHANGED <<stderr, exitCode, bodyClosed>>
    /\ UNCHANGED <<args, env, i, locals, acceptedCodeMap, bodyCheckPassed,
                   bodyDrained, given, verboseAt, run, first>>

(* ------------------------------------------------------------------ *)
(* main: the evaluation                                                *)
(* ------------------------------------------------------------------ *)

\* bodyContains != "" && httpMethod == "GET"
BodyCheckApplies == bodyContains # Empty /\ httpMethod = GET

\* BodyMatches with the mismatch noticed only in verbose mode
BodyMatchesOrQuiet == Contains(resp.Body, bodyContains) \/ ~verbose

\* strings.Contains(body, bodyContains), body being all of resp.Body
BodyMatches == Contains(resp.Body, bodyContains)

\* bodyCheckPassed := true; the body is read and searched only when the
\* check applies; io.ReadAll failing ends the process
CheckBody ==
    /\ pc = "body"
    /\ \/ /\ ~BodyCheckApplies
          /\ bodyCheckPassed' = TRUE
          /\ pc' = "evaluate"
          /\ UNCHANGED <<bodyDrained, stdout, stderr, exitCode, deferred, bodyClosed>>
       \/ /\ BodyCheckApplies
          /\ server.readErr
          /\ bodyCheckPassed' = TRUE
          /\ stderr' = Narrate(stderr, TRUE, "Erro ao ler o corpo da resposta")
          /\ osExit(1)
          /\ UNCHANGED <<bodyDrained, stdout>>
       \/ /\ BodyCheckApplies
          /\ ~server.readErr
          /\ bodyDrained' = TRUE
          /\ bodyCheckPassed' = BodyMatches
          /\ stderr' = Narrate(stderr, ~BodyMatches,
                               "Erro: O corpo da resposta nao contem")
          /\ stdout' = Narrate(stdout, BodyMatches,
                               "Sucesso: O corpo da resposta contem")
          /\ pc' = "evaluate"
          /\ UNCHANGED <<exitCode, deferred, bodyClosed>>
    /\ UNCHANGED <<args, env, server, i, locals, acceptedCodeMap, client, resp,
                   requests, given, verboseAt, run, first>>

\* acceptedCodeMap != nil
CodesConfigured == ~acceptedCodeMap.nil

\* Verdict with the status code looked at before the body check
VerdictCodesFirst ==
    IF CodesConfigured
    THEN IF MapGet(acceptedCodeMap, resp.StatusCode) THEN 0 ELSE 1
    ELSE IF bodyContains = Empty \/ bodyCheckPassed THEN 0 ELSE 1

\* Verdict asking for a status below 400 when no codes are configured
VerdictNeedsSuccessStatus ==
    IF bodyContains = Empty \/ bodyCheckPassed
    THEN IF CodesConfigured
         THEN IF MapGet(acceptedCodeMap, resp.StatusCode) THEN 0 ELSE 1
         ELSE IF resp.StatusCode < 400 THEN 0 ELSE 1
    ELSE 1

\* Verdict with the final else leaving with 0
VerdictBodyFailPasses ==
    IF bodyContains = Empty \/ bodyCheckPassed
    THEN IF CodesConfigured
         THEN IF MapGet(acceptedCodeMap, resp.StatusCode) THEN 0 ELSE 1
         ELSE 0
    ELSE 0

\* the exit code of the final if/else chain of main.  Its innermost chain
\* has no else: there main would return (exit code 0), and bodyContains ==
\* "" || bodyCheckPassed keeps it from being reached
Verdict ==
    IF bodyContains = Empty \/ bodyCheckPassed
    THEN IF CodesConfigured
         THEN IF MapGet(acceptedCodeMap, resp.StatusCode) THEN 0 ELSE 1
         ELSE IF bodyContains = Empty THEN 0
         ELSE IF bodyCheckPassed THEN 0
         ELSE 0
    ELSE 1

\* every branch of the chain leaves through os.Exit
Evaluate ==
    /\ pc = "evaluate"
    /\ stdout' =
          Narrate(Narrate(Narrate(stdout,
              (bodyContains = Empty \/ bodyCheckPassed) /\ CodesConfigured
                  /\ MapGet(acceptedCodeMap, resp.StatusCode),
              "Pedido bem-sucedido (aceite)"),
              (bodyContains = Empty \/ bodyCheckPassed) /\ CodesConfigured
                  /\ ~MapGet(acceptedCodeMap, resp.StatusCode),
              "Erro no pedido (nao aceite)"),
              ~CodesConfigured /\ bodyContains = Empty,
              "Pedido bem-sucedido (nenhum codigo esperado)")
    /\ osExit(Verdict)
    /\ UNCHANGED <<args, env, server, i, locals, acceptedCodeMap, client, resp,
                   bodyCheckPassed, bodyDrained, requests, stderr, given,
                   verboseAt, run, first>>

(* ------------------------------------------------------------------ *)
(* A second run of main on the same command line without its verbose   *)
(* options, in the same environment and against the same server         *)
(* ------------------------------------------------------------------ *)

RECURSIVE DropPositions(_, _, _)
\* the elements of a whose positions (k, k+1, ...) are not in at
DropPositions(a, at, k) ==
    IF a = <<>> THEN <<>>
    ELSE IF k \in at
         THEN DropPositions(Tail(a), at, k + 1)
         ELSE <<Head(a)>> \o DropPositions(Tail(a), at, k + 1)

Rerun ==
    /\ pc = "exited"
    /\ run = 1
    /\ verboseAt # {}
    /\ run' = 2
    /\ first' = [exitCode |-> exitCode, requests |-> requests]
    /\ args' = DropPositions(args, verboseAt, 1)
    \* main starts again: its declarations, and args := os.Args[1:]
    /\ i' = 0
    /\ url' = Empty
    /\ urlEnvName' = Empty
    /\ acceptedCodesStr' = Empty
    /\ acceptedCodesEnvName' = Empty
    /\ verbose' = FALSE
    /\ insecureSkipVerify' = FALSE
    /\ help' = FALSE
    /\ timeoutSeconds' = DefaultTimeout
    /\ httpMethod' = GET
    /\ bodyContains' = Empty
    /\ bodyContainsEnvName' = Empty
    /\ acceptedCodeMap' = NilMap
    /\ client' = NoClient
    /\ resp' = NoResponse
    /\ bodyCheckPassed' = TRUE
    /\ deferred' = <<>>
    /\ bodyDrained' = FALSE
    /\ bodyClosed' = FALSE
    /\ requests' = 0
    /\ stdout' = <<>>
    /\ stderr' = <<>>
    /\ pc' = "start"
    /\ exitCode' = NoExit
    /\ given' = {}
    /\ verboseAt' = {}
    /\ UNCHANGED <<env, server>>

(* ------------------------------------------------------------------ *)
(* Specifications                                                      *)
(* ------------------------------------------------------------------ *)

Next ==
    \/ CheckArguments
    \/ ParseUrl
    \/ ParseUrlEnvName
    \/ ParseAcceptedCodes
    \/ ParseAcceptedCodesEnvName
    \/ ParseVerbose
    \/ ParseInsecure
    \/ ParseHelp
    \/ ParseTimeout
    \/ ParseMethod
    \/ ParseBodyContains
    \/ ParseBodyContainsEnvName
    \/ ParseUnknown
    \/ CheckHelp
    \/ Resolve
    \/ BuildAcceptedCodes
    \/ Dispatch
    \/ CheckBody
    \/ Evaluate
    \/ Rerun

Spec == Init /\ [][Next]_vars

(* ------------------------------------------------------------------ *)
(* Vocabulary of the properties                                        *)
(* ------------------------------------------------------------------ *)

Exited == pc = "exited"

InSeq(x, seq) == \E k \in 1..Len(seq) : seq[k] = x

\* the parse loop ran to the end of the argument list
ParseCompleted == Len(args) > 0 /\ ~(i < Len(args))

\* the parse loop left the process at an argument (exits leave i in place)
ParseAborted == Exited /\ i < Len(args)

\* the set of integers a comma-separated list denotes
ParsedCodeSet(str) ==
    {Atoi(TrimSpace(Split(str, ",")[k])).val : k \in 1..Len(Split(str, ","))}

ValidCodeList(str) ==
    \A k \in 1..Len(Split(str, ",")) : Atoi(TrimSpace(Split(str, ",")[k])).ok

\* the configured substring was looked for in the body that was read, and found
SubstringFound ==
    bodyContains # Empty /\ bodyDrained /\ Contains(resp.Body, bodyContains)

\* the configured substring does not occur in the body of the response
SubstringAbsent ==
    bodyContains # Empty /\ ~Contains(resp.Body, bodyContains)

BodyGatePassed == bodyContains = Empty \/ SubstringFound

(* ------------------------------------------------------------------ *)
(* C1                                                                  *)
(* ------------------------------------------------------------------ *)

\* C1 as stated: in every run that obtains a response, a configured
\* body-substring that does not occur in the response body makes the
\* process exit with code 1, whatever the status code and the accepted codes.
C1_VetoEveryMethod ==
    (Exited /\ resp.received /\ SubstringAbsent) => exitCode = 1

\* C1 amended: the veto holds when the method is GET; with HEAD the body
\* is not examined and the substring decides nothing.
C1_VetoOnGet ==
    (Exited /\ resp.received /\ SubstringAbsent /\ httpMethod = GET)
        => exitCode = 1

\* a GET run whose status code is in the configured set and whose body
\* lacks the substring; the substring came from the environment
C1_Witness ==
    /\ Exited /\ resp.received /\ SubstringAbsent /\ httpMethod = GET
    /\ bodyContainsEnvName # Empty
    /\ acceptedCodesStr # Empty
    /\ resp.StatusCode \in ParsedCodeSet(acceptedCodesStr)
    /\ bodyDrained
    /\ exitCode = 1

(* ------------------------------------------------------------------ *)
(* C2                                                                  *)
(* ------------------------------------------------------------------ *)

\* C2: with an accepted-codes list configured after resolution and the body
\* gate passed, the exit code is 0 exactly when the received status code is
\* in the set the list denotes, and 1 otherwise -- whatever the order and
\* the repetitions of the list.
C2_ExitIffMember ==
    (Exited /\ resp.received /\ acceptedCodesStr # Empty /\ BodyGatePassed)
        => /\ ValidCodeList(acceptedCodesStr)
           /\ exitCode \in {0, 1}
           /\ exitCode = 0 <=> resp.StatusCode \in ParsedCodeSet(acceptedCodesStr)

\* the second code of a two-code list is received, behind a passed body check
C2_Witness ==
    /\ Exited /\ resp.received /\ SubstringFound
    /\ acceptedCodesStr = Codes404and200
    /\ resp.StatusCode = 200
    /\ exitCode = 0

(* ------------------------------------------------------------------ *)
(* C3                                                                  *)
(* ------------------------------------------------------------------ *)

BodySourceGiven ==
    ShortBodyContains \in given \/ ShortBodyContainsEnvName \in given

HelpInArguments == \E k \in 1..Len(args) : args[k] \in CaseHelp

UsageOnStdout == InSeq(UsageText, stdout)

\* C5 as stated: with -h or --help anywhere in the argument list the
\* process prints usage and exits 0, and issues no request.
C5_HelpAnywhere ==
    (Exited /\ HelpInArguments)
        => exitCode = 0 /\ UsageOnStdout /\ requests = 0

\* C5 amended: when the parse loop matched -h/--help as an option and ran
\* to the end of the list, usage is printed and the exit code is 0, with or
\* without a URL, and no request is issued; an argument error met by the
\* loop, before or after the -h, exits 1 without a request.
C5_HelpAfterCompleteParse ==
    /\ (Exited /\ ParseCompleted /\ help)
          => exitCode = 0 /\ UsageOnStdout /\ requests = 0 /\ ~client.built
    /\ ParseAborted => exitCode = 1 /\ requests = 0

\* help asked for on a command line that also gives a URL
C5_Witness ==
    /\ Exited /\ ParseCompleted /\ help
    /\ url # Empty
    /\ exitCode = 0

(* ------------------------------------------------------------------ *)
(* C6                                                                  *)
(* ------------------------------------------------------------------ *)

\* the parse loop stopped at an option name the switch does not know
UnknownOptionReached == ParseAborted /\ args[i + 1] \notin KnownOptions

\* C6 as stated: no arguments prints usage and exits 0; reaching an unknown
\* option exits 1 and prints the usage text to the error stream.
C6_UsageOnStderr ==
    /\ (Exited /\ Len(args) = 0) => exitCode = 0 /\ UsageOnStdout
    /\ UnknownOptionReached => exitCode = 1 /\ InSeq(UsageText, stderr)

\* C6 amended: no arguments prints usage to standard output and exits 0;
\* reaching an unknown option exits 1, with the "unknown option" diagnostic
\* on the error stream and the usage text on standard output.
C6_UsageOnStdout ==
    /\ (Exited /\ Len(args) = 0) => exitCode = 0 /\ UsageOnStdout
    /\ UnknownOptionReached
          => /\ exitCode = 1
             /\ InSeq(UnknownOptionText, stderr)
             /\ UsageOnStdout
             /\ ~InSeq(UsageText, stderr)

\* an unknown option reached behind other options
C6_Witness == UnknownOptionReached /\ i > 0 /\ exitCode = 1

(* ------------------------------------------------------------------ *)
(* C7                                                                  *)
(* ------------------------------------------------------------------ *)

HelpShown == Len(args) = 0 \/ (ParseCompleted /\ help)

\* a response came, the body check (if one applied) found the substring,
\* and the status code is in the configured set (if one is configured)
CheckPassed ==
    /\ resp.received
    /\ BodyCheckApplies => SubstringFound
    /\ acceptedCodesStr # Empty
          => resp.StatusCode \in ParsedCodeSet(acceptedCodesStr)

EmptyUrl == ParseCompleted /\ ~help /\ url = Empty

InvalidCodeList ==
    /\ ParseCompleted /\ ~help /\ url # Empty
    /\ acceptedCodesStr # Empty /\ ~ValidCodeList(acceptedCodesStr)

TransportError == requests = 1 /\ server.err

BodyReadError == resp.received /\ BodyCheckApplies /\ server.readErr

StatusMismatch ==
    /\ resp.received /\ acceptedCodesStr # Empty
    /\ resp.StatusCode \notin ParsedCodeSet(acceptedCodesStr)

\* the body check applied (GET) and the substring is not in the body
BodyMismatch == resp.received /\ BodyCheckApplies /\ SubstringAbsent

C7_ExitCodes ==
    Exited =>
        /\ exitCode \in {0, 1}
        /\ exitCode = 0 => HelpShown \/ CheckPassed
        /\ (ParseAborted \/ EmptyUrl \/ InvalidCodeList \/ TransportError
              \/ BodyReadError \/ StatusMismatch \/ BodyMismatch) => exitCode = 1

\* the steps main still has before it, at most: the stages after the
\* current one, and the arguments the loop has not consumed; a first run
\* has the second run before it as well
StagesLeft ==
    CASE pc = "start"    -> 7
      [] pc = "parse"    -> 6
      [] pc = "resolve"  -> 5
      [] pc = "codes"    -> 4
      [] pc = "dispatch" -> 3
      [] pc = "body"     -> 2
      [] pc = "evaluate" -> 1
      [] pc = "exited"   -> 0

StepsLeft ==
    (2 - run) * (9 + Len(args)) + StagesLeft + (Len(args) - i)

C8_PositiveTimeout ==
    /\ client.built => client.Timeout > 0
    /\ (client.built /\ ShortTimeout \notin given) => client.Timeout = DefaultTimeout
    /\ requests > 0 => timeoutSeconds > 0

(* ------------------------------------------------------------------ *)
(* C9                                                                  *)
(* ------------------------------------------------------------------ *)

\* C9 as stated: the run without the verbose options ends with the exit
\* code of the run with them, after the same number of requests (same
\* arguments otherwise, same environment, same server behaviour).
C9_VerboseNoEffect ==
    (run = 2 /\ Exited)
        => exitCode = first.exitCode /\ requests = first.requests

\* C9 amended: the same, provided the argument list without its verbose
\* options is not empty.  (A list of verbose options only exits 1 for the
\* missing URL; the empty list prints usage and exits 0.)
C9_VerboseNoEffectOnNonEmpty ==
    (run = 2 /\ Exited /\ Len(args) > 0)
        => exitCode = first.exitCode /\ requests = first.requests

\* both runs made their request and failed the body check, which only the
\* verbose run reported
C9_Witness ==
    /\ run = 2 /\ Exited /\ ~verbose
    /\ requests = 1 /\ first.requests = 1
    /\ BodyMismatch
    /\ stderr = <<>>
    /\ exitCode = 1

(* ------------------------------------------------------------------ *)
(* C10                                                                 *)
(* ------------------------------------------------------------------ *)

\* C10: whenever a response was obtained, its body has been read to the end
\* and closed by the time the process exits.
C10_BodyReleased ==
    (Exited /\ resp.received) => bodyDrained /\ bodyClosed

====
